---- MODULE Spec2Model ----
(***************************************************************************)
(* Model of dev/generate_headers.py: the incremental pre-build pipeline    *)
(* that aggregates JSON fragments (combine_json), embeds the aggregated    *)
(* artifacts as C++ headers gated by file times and a content hash         *)
(* (TO_CPP), and persists the hash store (generate).                       *)
(*                                                                         *)
(* The file system is modelled by three variables: frag (the fragment      *)
(* files matched by the two globs), data (the content of every other file  *)
(* the script reads or writes) and mtime (the modification time of the     *)
(* files whose time the script reads).  Time is a bounded logical clock.   *)
(* Byte contents are abstracted: a fragment holds a content version, an    *)
(* aggregated file holds the set of (fragment, version) pairs it was built  *)
(* from, tagged with its serialisation; hex encoding and hashing are       *)
(* tagged injective wrappers.  The hex encoding itself (to_chunks and the  *)
(* two loops' literal formatting) is modelled on byte sequences by the      *)
(* variable enc and the actions EncodeZ and EncodeValues.                   *)
(***************************************************************************)
EXTENDS Integers, Sequences, FiniteSets, TLC

\* ------------------------------------------------------------------ bounds
MaxTime == 2        \* the logical clock runs over 0..MaxTime
MaxContent == 2     \* a fragment's bytes are one of the versions 1..MaxContent
MaxFaults == 1      \* at most MaxFaults faults (kills, failed writes, lost files) happen
MaxPrefix == 2      \* an encoded input starts with at most MaxPrefix arbitrary bytes
MaxRun == 32        \* followed by at most MaxRun digits '1'

\* --------------------------------------------------------- configuration
\* dev/fluids/*.json and dev/incompressible_liquids/json/*.json, listed in
\* lexicographic order (the order sorted() gives)
FluidNames == <<"fluids/a.json", "fluids/b.json">>
IncompNames == <<"incompressible_liquids/json/w.json">>
LexOrder == FluidNames \o IncompNames

Range(s) == {s[i] : i \in 1..Len(s)}
FluidFrags == Range(FluidNames)
IncompFrags == Range(IncompNames)
Frags == FluidFrags \cup IncompFrags
\* the fragments a developer adds, edits or removes between runs
Editable == FluidFrags

\* zvalues (line 60) and values (line 48); of the eight values entries whose
\* input is a checked-in file, one representative is kept
zvalues == << [infile |-> "all_fluids.json.z", outfile |-> "all_fluids_JSON_z.h",
               variable |-> "all_fluids_JSON_z"] >>
values == << [infile |-> "all_fluids.json", outfile |-> "all_fluids_JSON.h",
              variable |-> "all_fluids_JSON"],
             [infile |-> "all_incompressibles.json", outfile |-> "all_incompressibles_JSON.h",
              variable |-> "all_incompressibles_JSON"],
             [infile |-> "mixtures/mixture_departure_functions.json",
              outfile |-> "mixture_departure_functions_JSON.h",
              variable |-> "mixture_departure_functions_JSON"] >>
\* the plain-JSON loop run before the compressed one
EmbedJobs_values_first == values \o zvalues

\* the order in which TO_CPP runs its two loops
EmbedJobs == zvalues \o values
NJobs == Len(EmbedJobs)
IsZ(j) == j <= Len(zvalues)

StaticInputs == {"mixtures/mixture_departure_functions.json"}
AggFiles == {"all_fluids.json.z", "all_fluids_verbose.json", "all_fluids.json",
             "all_incompressibles_verbose.json", "all_incompressibles.json"}
Headers == {EmbedJobs[j].outfile : j \in 1..NJobs}
CacheFiles == {".fluiddepcache", ".incompdepcache"}
OtherOut == {"cpversion.h", ".version", "gitrevision.h"}
Files == StaticInputs \cup AggFiles \cup Headers \cup CacheFiles \cup OtherOut
\* the files whose modification time the script reads (os.path.getmtime)
TimedFiles == StaticInputs \cup Headers \cup
              {"all_fluids.json.z", "all_fluids.json", "all_incompressibles.json"}
\* the generated files a failing write can leave truncated or that get deleted
Outputs == AggFiles \cup Headers \cup {"cpversion.h", "gitrevision.h"}

GitRev == "r1"          \* what `git rev-parse HEAD` prints
Version == "6.4.1"       \* what get_version reads from CMakeLists.txt

\* ------------------------------------------------------------- contents
Absent == [k |-> "absent"]
Partial == [k |-> "partial"]          \* a file truncated by a failed write
Corrupt == [k |-> "corrupt"]          \* a cache file with invalid content
\* dev/hashes.json holding bytes that are no text in the locale's encoding, and
\* holding a JSON value that is no object (null, a list, a number)
Undecodable == [k |-> "undecodable"]
NotAMapping == [k |-> "not a mapping"]
StaticJson == [k |-> "json", m |-> {<<"static", 1>>}]
\* the content of a fragment json.load cannot parse
Malformed == -1

VARIABLES
  frag,      \* fragment name -> [c: 0..MaxContent (0: no such file) or Malformed,
             \* t: mtime]
  data,      \* file -> content
  mtime,     \* timed file -> modification time
  hashfile,  \* dev/hashes.json: Absent, Corrupt, Undecodable, NotAMapping or
             \* [k |-> "hashes", map |-> ...]
  now,       \* the clock
  report,    \* history: what the last run did (NoReport once anything changed)
  envLog,    \* history: what happened since the last complete run ("none": nothing;
             \* one change of the environment; "killed": runs, one of them killed,
             \* and no change after it; "many": anything else)
  pending,   \* history: fluids job found stale and its manifest not yet rewritten
  faults,    \* the number of faults so far (bounded by MaxFaults)
  enc        \* the embed loops' encoding of one input: [json_: the bytes of the
             \* input file, loop: "-", "zvalues" or "values", raised: an exception
             \* left the loop, chunks: the lines of literals of hex_string]

vars == <<frag, data, mtime, hashfile, now, report, envLog, pending, faults, enc>>

NoHashes == [s \in {} |-> 0]
NoDecision == [needs |-> FALSE, reason |-> "-"]
NoReport == [result |-> "none", since |-> "-", fl |-> NoDecision, inc |-> NoDecision,
             writes |-> {}, error |-> "-", log |-> <<>>]

\* -------------------------------------------------------------- helpers
\* get_hash: sha224 hex digest (injective on the modelled payloads)
get_hash(x) == [sha224 |-> x]

\* lines 115-124 / 162-171: the hex text of the bytes that were read
hex_string(bytes) == [hex |-> bytes]

\* glob: the fragments of a directory that exist
Glob(S) == {n \in S : frag[n].c # 0}

\* json.dumps(master) of the fragments read from a directory
Master(S) == {<<n, frag[n].c>> : n \in Glob(S)}

\* the set of all enumerations (directory orders) of a set of names
Orders(S) == {s \in [1..Cardinality(S) -> S] : Range(s) = S}

Pos(n) == CHOOSE i \in 1..Len(LexOrder) : LexOrder[i] = n
\* sorted(): a sequence of paths in lexicographic order
RECURSIVE sorted(_)
sorted(s) ==
  IF Len(s) = 0 THEN <<>>
  ELSE LET m == CHOOSE i \in 1..Len(s) : \A k \in 1..Len(s) : Pos(s[i]) <= Pos(s[k])
           rest == [k \in 1..(Len(s) - 1) |-> IF k < m THEN s[k] ELSE s[k + 1]]
       IN <<s[m]>> \o sorted(rest)

Min(S) == CHOOSE x \in S : \A y \in S : x <= y

\* ------------------------------------------------------ a running script
\* A run of the script is sequential and nothing else touches the files
\* while it runs, so a run is one action.  Its steps are operators on the
\* record s of what the run has reached: the files as the run has left them
\* so far (data, mtime, hashfile), the script's memory (hashes: the in-memory
\* hash store; dep: what is left of the DependencyManager's sources
\* generator; fl, inc: what needs_build returned for the two aggregation
\* jobs), raised (an exception has ended the run), and the history writes
\* (the files written), log (the generated files opened for writing and the
\* embed inputs read, in the order the run did so) and pending.
Start ==
  [data |-> data, mtime |-> mtime, hashfile |-> hashfile, hashes |-> NoHashes,
   dep |-> <<>>, fl |-> NoDecision, inc |-> NoDecision, raised |-> FALSE,
   writes |-> {}, pending |-> pending, error |-> "-", log |-> <<>>]

Exists(s, f) == s.data[f] # Absent

\* open(f, 'w').write(content): content and time of f, and the history
Write(s, f, content) ==
  [s EXCEPT !.data[f] = content,
            !.mtime = IF f \in TimedFiles THEN [@ EXCEPT ![f] = now] ELSE @,
            !.writes = @ \cup {f},
            !.log = Append(@, [op |-> "write", f |-> f])]

SetHash(h, key, d) == [x \in DOMAIN h \cup {key} |-> IF x = key THEN d ELSE h[x]]

\* module import (lines 32-43): load dev/hashes.json, empty when missing or
\* when json.load raises JSONDecodeError; the UnicodeDecodeError that reading
\* undecodable bytes raises is not caught
load_hashes(s) ==
  IF s.hashfile = Undecodable THEN [s EXCEPT !.raised = TRUE]
  ELSE [s EXCEPT !.hashes = IF s.hashfile.k = "hashes" THEN s.hashfile.map ELSE NoHashes]

\* version_to_file (lines 211-255); on a loaded value that is no dict line
\* 226 or line 227 raises TypeError
version_to_file(s) ==
  IF s.hashfile = NotAMapping THEN [s EXCEPT !.raised = TRUE] ELSE
  LET stale == \/ "version" \notin DOMAIN s.hashes
               \/ ("version" \in DOMAIN s.hashes /\ s.hashes["version"] # get_hash(Version))
      s1 == IF stale
              THEN Write([s EXCEPT !.hashes = SetHash(@, "version", get_hash(Version))],
                         "cpversion.h", [k |-> "cpversion", v |-> Version])
            ELSE s
  IN Write(s1, ".version", [k |-> "text", v |-> Version])

\* gitrev_to_file (lines 258-319), git available
gitrev_to_file(s) ==
  LET gitrev == GitRev
      stale == \/ "gitrevision" \notin DOMAIN s.hashes
               \/ ("gitrevision" \in DOMAIN s.hashes
                     /\ s.hashes["gitrevision"] # get_hash(gitrev))
  IN IF stale
       THEN LET s1 == Write(s, "gitrevision.h", [k |-> "gitrevision", v |-> gitrev])
            IN [s1 EXCEPT !.hashes = SetHash(@, "gitrevision", get_hash(gitrev))]
     ELSE s

\* ------------------------------------------------- DependencyManager
\* DependencyManager.needs_build (lines 327-343).  `sources` is the generator
\* Path.glob returned (lines 352, 393), given as the sequence it will yield;
\* `rest` is what it can still yield when needs_build returns.
needs_build(s, sources, destination, cachefile) ==
  IF ~Exists(s, destination)
    THEN [needs |-> TRUE, reason |-> "destination does not exist", rest |-> sources,
          raised |-> FALSE]
  ELSE IF ~Exists(s, cachefile)
    THEN [needs |-> TRUE, reason |-> "cache file does not exist", rest |-> sources,
          raised |-> FALSE]
  ELSE
    LET dest_mtime == s.mtime[destination]
        hit == {i \in 1..Len(sources) : frag[sources[i]].t >= dest_mtime}
    IN IF hit # {}
         THEN [needs |-> TRUE, reason |-> "source file is newer than destination",
               rest |-> SubSeq(sources, Min(hit) + 1, Len(sources)), raised |-> FALSE]
       ELSE
         \* the for loop of line 335 ran to its end: it has taken every
         \* element out of the generator, which is what line 341 sorts
         LET exhausted == SubSeq(sources, Len(sources) + 1, Len(sources))
         IN IF s.data[cachefile] = Corrupt
              \* pickle.load (line 340) raises, and nothing catches it
              THEN [needs |-> FALSE, reason |-> "-", rest |-> exhausted, raised |-> TRUE]
            ELSE
              LET previous_sources == s.data[cachefile].sorted_sources
              IN IF sorted(exhausted) # previous_sources
                   THEN [needs |-> TRUE, reason |-> "source list has changed",
                         rest |-> exhausted, raised |-> FALSE]
                 ELSE [needs |-> FALSE, reason |-> "", rest |-> exhausted, raised |-> FALSE]

\* DependencyManager.write_cache (lines 345-347): pickles what the generator
\* still yields, sorted
write_cache(sources) == [k |-> "pickle", sorted_sources |-> sorted(sources)]

\* `if needs:` (line 356) tests the bool of the returned pair
fluids_branch(r) == r.needs
\* `if depincomp.needs_build():` (line 395) tests the returned pair itself,
\* and a pair is a non-empty tuple
incomp_branch(r) == Len(<<r.needs, r.reason>>) # 0

\* ------------------------------------------------------ combine_json
\* lines 351-357: build depfluids over the glob (enumerated in `order`), ask it
fluids_check(s, order) ==
  LET r == needs_build(s, order, "all_fluids.json.z", ".fluiddepcache")
  IN [s EXCEPT !.fl = [needs |-> r.needs, reason |-> r.reason],
               !.dep = r.rest,
               !.raised = r.raised,
               !.pending = (@ \/ r.needs)]

\* a loop that skips the fragments it cannot parse
unparsable_skipped(order) == {}

\* the fragments of `order` (the directory as glob.glob lists it) that
\* json.load cannot parse (lines 366-373, 404-410)
unparsable(order) == {i \in 1..Len(order) : frag[order[i]].c = Malformed}

\* the ValueError of lines 373 and 410: it names the first such fragment
parse_error(s, order) ==
  [s EXCEPT !.raised = TRUE, !.error = order[Min(unparsable(order))]]

\* lines 359-378: read every fragment, write all_fluids.json.z
fluids_write_z(s, order) ==
  IF fluids_branch(s.fl)
    THEN IF unparsable(order) # {} THEN parse_error(s, order)
         ELSE Write(s, "all_fluids.json.z", [k |-> "z", m |-> Master(FluidFrags)])
  ELSE s

\* lines 382-384
fluids_write_verbose(s) ==
  IF fluids_branch(s.fl)
    THEN Write(s, "all_fluids_verbose.json", [k |-> "verbose", m |-> Master(FluidFrags)])
  ELSE s

\* lines 386-388
fluids_write_json(s) ==
  IF fluids_branch(s.fl)
    THEN Write(s, "all_fluids.json", [k |-> "json", m |-> Master(FluidFrags)])
  ELSE s

\* line 390
fluids_write_cache(s) ==
  IF fluids_branch(s.fl)
    THEN [Write(s, ".fluiddepcache", write_cache(s.dep)) EXCEPT !.pending = FALSE]
  ELSE s

\* lines 392-396: build depincomp over the glob, ask it
incomp_check(s, order) ==
  LET r == needs_build(s, order, "all_incompressibles.json", ".incompdepcache")
  IN [s EXCEPT !.inc = [needs |-> r.needs, reason |-> r.reason],
               !.dep = r.rest,
               !.raised = r.raised]

\* lines 397-416: read every fragment, write all_incompressibles_verbose.json
incomp_write_verbose(s, order) ==
  IF incomp_branch(s.inc)
    THEN IF unparsable(order) # {} THEN parse_error(s, order)
         ELSE Write(s, "all_incompressibles_verbose.json",
                    [k |-> "verbose", m |-> Master(IncompFrags)])
  ELSE s

\* lines 418-420
incomp_write_json(s) ==
  IF incomp_branch(s.inc)
    THEN Write(s, "all_incompressibles.json", [k |-> "json", m |-> Master(IncompFrags)])
  ELSE s

\* line 421
incomp_write_cache(s) ==
  IF incomp_branch(s.inc)
    THEN Write(s, ".incompdepcache", write_cache(s.dep))
  ELSE s

\* ------------------------------------------------------------ TO_CPP
\* TO_CPP.needs_build (lines 95-100)
embed_needs_build(s, inpath, outpath) ==
  IF ~Exists(s, outpath) THEN "build"
  ELSE IF ~Exists(s, inpath) THEN "raise"
  ELSE IF s.mtime[inpath] > s.mtime[outpath] THEN "build"
  ELSE "up to date"

\* the test of lines 127 and 174 with the digest taken of the bytes read
\* instead of the hex text that is written
hash_gate_of_bytes(s, outfile, variable, hex) ==
  \/ ~Exists(s, outfile)
  \/ variable \notin DOMAIN s.hashes
  \/ (variable \in DOMAIN s.hashes /\ s.hashes[variable] # get_hash(hex.hex))

\* lines 127 and 174: the test that decides whether the header is written
hash_gate(s, outfile, variable, hex) ==
  \/ ~Exists(s, outfile)
  \/ variable \notin DOMAIN s.hashes
  \/ (variable \in DOMAIN s.hashes /\ s.hashes[variable] # get_hash(hex))

\* the header text of lines 130 and 177-181 (the date in it left out)
header(j, hex) ==
  IF IsZ(j) THEN [k |-> "incbin", symbol |-> EmbedJobs[j].variable, hexdata |-> hex]
  ELSE [k |-> "cpp", symbol |-> EmbedJobs[j].variable, hexdata |-> hex]

\* what one iteration of the loops of lines 102-137 and 139-193 does for job j:
\* "raise" (an exception leaves TO_CPP), "skip" (nothing written), "write"
embed_outcome(s, j) ==
  LET e == EmbedJobs[j]
      nb == embed_needs_build(s, e.infile, e.outfile)
  IN IF nb = "raise" THEN "raise"
     ELSE IF nb = "up to date" THEN "skip"
     ELSE IF ~Exists(s, e.infile) THEN "raise"                      \* open() fails
     ELSE IF ~IsZ(j) /\ s.data[e.infile] = Partial THEN "raise"  \* json.load fails
     ELSE IF hash_gate(s, e.outfile, e.variable, hex_string(s.data[e.infile])) THEN "write"
     ELSE "skip"

\* one iteration of the loop of lines 102-137 (zvalues) or 139-193 (values)
embed(s, j) ==
  LET e == EmbedJobs[j]
      out == embed_outcome(s, j)
      hex == hex_string(s.data[e.infile])
      \* lines 110 and 147-156: the input is opened and read once the
      \* pre-check has found the job stale
      r == IF embed_needs_build(s, e.infile, e.outfile) = "build" /\ Exists(s, e.infile)
             THEN [s EXCEPT !.log = Append(@, [op |-> "read", f |-> e.infile])]
           ELSE s
  IN IF out = "raise" THEN [r EXCEPT !.raised = TRUE]
     ELSE IF out = "write"
       THEN [Write(r, e.outfile, header(j, hex)) EXCEPT
               !.hashes = SetHash(@, e.variable, get_hash(hex))]
     ELSE r

\* generate, lines 436-440
flush(s) ==
  IF s.hashes # NoHashes
    THEN [s EXCEPT !.hashfile = [k |-> "hashes", map |-> s.hashes],
                   !.writes = @ \cup {"hashes.json"},
                   !.log = Append(@, [op |-> "write", f |-> "hashes.json"])]
  ELSE s

\* ------------------------------------------------------------ encoding
\* the bytes the modelled inputs are made of: NUL, LF, CR, the digit '1' and
\* 0xff
Alphabet == {0, 10, 13, 49, 255}
Whitespace == {9, 10, 13, 32}

RECURSIVE Repeat(_, _)
Repeat(b, n) == IF n = 0 THEN <<>> ELSE <<b>> \o Repeat(b, n - 1)

RECURSIVE Prefixes(_)
Prefixes(n) ==
  IF n = 0 THEN {<<>>}
  ELSE Prefixes(n - 1) \cup {Append(p, b) : p \in Prefixes(n - 1), b \in Alphabet}

\* the contents of an input file of an embed job
Inputs == {p \o Repeat(49, k) : p \in Prefixes(MaxPrefix), k \in 0..MaxRun}

NotEncoded(bytes) == [json_ |-> bytes, loop |-> "-", raised |-> FALSE, chunks |-> <<>>]

\* to_chunks (lines 84-87)
to_chunks(l, n) ==
  LET m == IF n < 1 THEN 1 ELSE n
  IN [k \in 1..((Len(l) + m - 1) \div m) |->
        SubSeq(l, (k - 1) * m + 1, IF k * m < Len(l) THEN k * m ELSE Len(l))]

\* "0x{:02x}".format(b): the characters of the literal of one byte
HexDigits == <<"0", "1", "2", "3", "4", "5", "6", "7", "8", "9",
               "a", "b", "c", "d", "e", "f">>
format_02x(b) == <<"0", "x", HexDigits[(b \div 16) + 1], HexDigits[(b % 16) + 1]>>

\* lines 114-120 and 161-167: h and chunks of the bytes json_
h(json_) == [i \in 1..(Len(json_) + 1) |->
               IF i <= Len(json_) THEN format_02x(json_[i]) ELSE <<"0", "x", "0", "0">>]
chunks(json_) == to_chunks(h(json_), 16)

\* open(..., 'r').read(): the text of a file read in text mode with the
\* default newline=None, which turns "\r\n" and "\r" into "\n"
RECURSIVE universal_newlines(_)
universal_newlines(b) ==
  IF b = <<>> THEN <<>>
  ELSE IF b[1] = 13
    THEN <<10>> \o universal_newlines(IF Len(b) >= 2 /\ b[2] = 10
                                        THEN SubSeq(b, 3, Len(b)) ELSE Tail(b))
  ELSE <<b[1]>> \o universal_newlines(Tail(b))

\* json.load (line 149) accepts the text: over the Alphabet a JSON document is
\* one integer 1, 11, 111, ... between whitespace.  The byte 0xff either
\* fails to decode (UTF-8 locale) or decodes to a character no JSON document
\* over the Alphabet holds; both raise ValueError.
json_load_ok(text) ==
  LET ones == {i \in 1..Len(text) : text[i] = 49}
  IN /\ ones # {}
     /\ \A i \in 1..Len(text) :
          \/ text[i] = 49 /\ \A k \in ones : (k < i => \A l \in k..i : text[l] = 49)
          \/ text[i] \in Whitespace

\* lines 109-124: the body of the zvalues loop on an input read as bytes
EncodeZ ==
  /\ enc' = [json_ |-> enc.json_, loop |-> "zvalues", raised |-> FALSE,
             chunks |-> chunks(enc.json_)]
  /\ UNCHANGED <<frag, data, mtime, hashfile, now, report, envLog, pending, faults>>

\* lines 146-171: the body of the values loop on an input read as text,
\* parsed, then encoded to ASCII
EncodeValues ==
  /\ LET text == universal_newlines(enc.json_)
     IN enc' = IF json_load_ok(text)
                 THEN [json_ |-> enc.json_, loop |-> "values", raised |-> FALSE,
                       chunks |-> chunks(text)]
               ELSE [json_ |-> enc.json_, loop |-> "values", raised |-> TRUE,
                     chunks |-> <<>>]
  /\ UNCHANGED <<frag, data, mtime, hashfile, now, report, envLog, pending, faults>>

\* ------------------------------------------------------------ generate
\* the steps of generate() in program order: the import, lines 431-432,
\* TO_CPP (combine_json, then the zvalues and the values loop), the flush
FirstEmbed == 13
NSteps == FirstEmbed + NJobs

Step(i, s, fo, io) ==
  IF s.raised THEN s
  ELSE CASE i = 1 -> load_hashes(s)
         [] i = 2 -> version_to_file(s)
         [] i = 3 -> gitrev_to_file(s)
         [] i = 4 -> fluids_check(s, fo)
         [] i = 5 -> fluids_write_z(s, fo)
         [] i = 6 -> fluids_write_verbose(s)
         [] i = 7 -> fluids_write_json(s)
         [] i = 8 -> fluids_write_cache(s)
         [] i = 9 -> incomp_check(s, io)
         [] i = 10 -> incomp_write_verbose(s, io)
         [] i = 11 -> incomp_write_json(s)
         [] i = 12 -> incomp_write_cache(s)
         [] i >= FirstEmbed /\ i < NSteps -> embed(s, i - FirstEmbed + 1)
         [] i = NSteps -> flush(s)

\* the run after each of its first n steps: <<Start, after step 1, ...>>
RECURSIVE Trace(_, _, _)
Trace(n, fo, io) ==
  IF n = 0 THEN <<Start>>
  ELSE LET t == Trace(n - 1, fo, io) IN Append(t, Step(n, t[n], fo, io))

\* the run is over (completed, raised or killed) and has left s behind
Finish(s, complete, fault, kind) ==
  /\ data' = s.data
  /\ mtime' = s.mtime
  /\ hashfile' = s.hashfile
  /\ pending' = s.pending
  /\ report' = [result |-> IF complete THEN "complete" ELSE "aborted", since |-> envLog,
                fl |-> s.fl, inc |-> s.inc, writes |-> s.writes, error |-> s.error,
                log |-> s.log]
  /\ envLog' = IF complete THEN "none" ELSE kind
  /\ faults' = faults + fault
  /\ UNCHANGED <<frag, now, enc>>

\* one run of generate() that nothing interrupts
generate ==
  \E fo \in Orders(Glob(FluidFrags)), io \in Orders(Glob(IncompFrags)) :
    LET s == Trace(NSteps, fo, io)[NSteps + 1]
    IN Finish(s, ~s.raised, 0, "many")

\* ------------------------------------------------------------- faults
\* the process is killed between two steps, the last of which is the flush
Interrupt ==
  /\ faults < MaxFaults
  /\ \E fo \in Orders(Glob(FluidFrags)), io \in Orders(Glob(IncompFrags)) :
       LET t == Trace(NSteps - 1, fo, io)
       IN \E n \in 1..(NSteps - 1) : ~t[n + 1].raised /\ Finish(t[n + 1], FALSE, 1, "killed")

\* the file step i is about to write in s, when it is an aggregated file or
\* a header
WriteTarget(i, s) ==
  IF i \in 5..7 /\ fluids_branch(s.fl)
    THEN {<<"all_fluids.json.z", "all_fluids_verbose.json", "all_fluids.json">>[i - 4]}
  ELSE IF i \in 10..11 /\ incomp_branch(s.inc)
    THEN {<<"all_incompressibles_verbose.json", "all_incompressibles.json">>[i - 9]}
  ELSE IF i >= FirstEmbed /\ i < NSteps /\ embed_outcome(s, i - FirstEmbed + 1) = "write"
    THEN {EmbedJobs[i - FirstEmbed + 1].outfile}
  ELSE {}

\* a write fails after open(..., 'w') truncated the file (disk full, process
\* killed inside the write): the file is left partial and the run ends
WriteFails ==
  /\ faults < MaxFaults
  /\ \E fo \in Orders(Glob(FluidFrags)), io \in Orders(Glob(IncompFrags)) :
       LET t == Trace(NSteps - 1, fo, io)
       IN \E n \in 5..(NSteps - 1) :
            /\ ~t[n].raised
            /\ (n = 5 => unparsable(fo) = {}) /\ (n = 10 => unparsable(io) = {})
            /\ \E f \in WriteTarget(n, t[n]) : Finish(Write(t[n], f, Partial), FALSE, 1, "many")

\* -------------------------------------------------------- environment
Log(kind) == IF envLog = "none" THEN kind ELSE "many"

\* the clock advances between two runs
Tick ==
  /\ now < MaxTime
  /\ now' = now + 1
  /\ UNCHANGED <<frag, data, mtime, hashfile, report, envLog, pending, faults, enc>>

\* between two runs a developer adds, edits (or touches) or removes a
\* fragment; the clock has advanced past every existing file's time
AddFragment ==
  /\ now < MaxTime
  /\ \E n \in Editable, c \in 1..MaxContent :
       /\ frag[n].c = 0
       /\ frag' = [frag EXCEPT ![n] = [c |-> c, t |-> now + 1]]
  /\ now' = now + 1
  /\ envLog' = Log("add")
  /\ report' = NoReport
  /\ UNCHANGED <<data, mtime, hashfile, pending, faults, enc>>

ModifyFragment ==
  /\ now < MaxTime
  /\ \E n \in Editable, c \in 1..MaxContent :
       /\ frag[n].c # 0
       /\ frag' = [frag EXCEPT ![n] = [c |-> c, t |-> now + 1]]
       /\ envLog' = Log(IF c = frag[n].c THEN "touch" ELSE "modify")
  /\ now' = now + 1
  /\ report' = NoReport
  /\ UNCHANGED <<data, mtime, hashfile, pending, faults, enc>>

\* an edit leaves a fragment that is no JSON
BreakFragment ==
  /\ now < MaxTime
  /\ \E n \in Frags :
       /\ frag[n].c \notin {0, Malformed}
       /\ frag' = [frag EXCEPT ![n] = [c |-> Malformed, t |-> now + 1]]
  /\ now' = now + 1
  /\ envLog' = Log("break")
  /\ report' = NoReport
  /\ UNCHANGED <<data, mtime, hashfile, pending, faults, enc>>

RemoveFragment ==
  /\ \E n \in Editable :
       /\ frag[n].c # 0
       /\ frag' = [frag EXCEPT ![n] = [c |-> 0, t |-> 0]]
  /\ envLog' = Log("remove")
  /\ report' = NoReport
  /\ UNCHANGED <<data, mtime, hashfile, now, pending, faults, enc>>

\* a generated file is deleted between two runs
Delete(f) ==
  /\ faults < MaxFaults
  /\ faults' = faults + 1
  /\ data[f] # Absent
  /\ data' = [data EXCEPT ![f] = Absent]
  /\ mtime' = IF f \in TimedFiles THEN [mtime EXCEPT ![f] = 0] ELSE mtime
  /\ envLog' = Log("delete")
  /\ report' = NoReport
  /\ UNCHANGED <<frag, hashfile, now, pending, enc>>

\* a generated header is deleted
DeleteHeader == \E f \in Headers : Delete(f)

\* an aggregated file, cpversion.h or gitrevision.h is deleted
DeleteOutput == \E f \in Outputs \ Headers : Delete(f)

\* dev/hashes.json is replaced by invalid content: malformed JSON text,
\* undecodable bytes, or a JSON value that is no object
CorruptHashStore ==
  /\ faults < MaxFaults
  /\ faults' = faults + 1
  /\ hashfile.k = "hashes"
  /\ \E c \in {Corrupt, Undecodable, NotAMapping} :
       /\ hashfile' = c
       /\ envLog' = Log(IF c = Corrupt THEN "corrupt" ELSE "unparsable")
  /\ report' = NoReport
  /\ UNCHANGED <<frag, data, mtime, now, pending, enc>>

\* a manifest file is replaced by content pickle cannot load (truncated, empty)
CorruptManifest ==
  /\ faults < MaxFaults
  /\ faults' = faults + 1
  /\ \E f \in CacheFiles :
       /\ data[f] # Absent
       /\ data' = [data EXCEPT ![f] = Corrupt]
  /\ envLog' = Log("manifest")
  /\ report' = NoReport
  /\ UNCHANGED <<frag, mtime, hashfile, now, pending, enc>>

\* ----------------------------------------------------------------- Init
\* a checkout that was never built: every fragment present, no output yet
Init ==
  /\ frag = [n \in Frags |-> [c |-> 1, t |-> 0]]
  /\ data = [f \in Files |-> IF f \in StaticInputs THEN StaticJson ELSE Absent]
  /\ mtime = [f \in TimedFiles |-> 0]
  /\ hashfile = Absent
  /\ now = 0
  /\ report = NoReport
  /\ envLog = "many"
  /\ pending = FALSE
  /\ faults = 0
  /\ enc = NotEncoded(<<>>)

\* ------------------------------------------------------ specifications
Sources == Tick \/ AddFragment \/ ModifyFragment \/ RemoveFragment

Crashes == Interrupt \/ WriteFails

Losses == DeleteHeader \/ DeleteOutput \/ CorruptHashStore \/ CorruptManifest

Next == generate \/ Sources \/ BreakFragment \/ Crashes \/ Losses

\* every run, every change of the fragments and every fault
Spec == Init /\ [][Next]_vars

\* complete runs only, interleaved with changes of the fragments
NextNominal == generate \/ Sources
SpecNominal == Init /\ [][NextNominal]_vars

\* runs that can be killed or fail in a write
NextCrash == generate \/ Sources \/ Crashes
SpecCrash == Init /\ [][NextCrash]_vars

\* complete runs, between which generated files or the hash store get lost
NextLost == generate \/ Sources \/ Losses
SpecLost == Init /\ [][NextLost]_vars

\* runs over fragments of which some cannot be parsed
NextMalformed == generate \/ Sources \/ BreakFragment
SpecMalformed == Init /\ [][NextMalformed]_vars

\* the two embed loops' encoding, applied to every input of Inputs
InitEncode ==
  /\ frag = [n \in Frags |-> [c |-> 1, t |-> 0]]
  /\ data = [f \in Files |-> IF f \in StaticInputs THEN StaticJson ELSE Absent]
  /\ mtime = [f \in TimedFiles |-> 0]
  /\ hashfile = Absent
  /\ now = 0
  /\ report = NoReport
  /\ envLog = "many"
  /\ pending = FALSE
  /\ faults = 0
  /\ \E bytes \in Inputs : enc = NotEncoded(bytes)
NextEncode == EncodeZ \/ EncodeValues
SpecEncode == InitEncode /\ [][NextEncode]_vars

\* complete runs, between which fragments are edited and headers get deleted
NextGate == generate \/ Tick \/ ModifyFragment \/ DeleteHeader
SpecGate == Init /\ [][NextGate]_vars

\* ---------------------------------------------------------------- claims
\* what a clean run over the present fragments leaves: every aggregated file
\* holds the present fragments, every header encodes its present input
Aggregated ==
  /\ data["all_fluids.json.z"] = [k |-> "z", m |-> Master(FluidFrags)]
  /\ data["all_fluids_verbose.json"] = [k |-> "verbose", m |-> Master(FluidFrags)]
  /\ data["all_fluids.json"] = [k |-> "json", m |-> Master(FluidFrags)]
  /\ data["all_incompressibles_verbose.json"] = [k |-> "verbose", m |-> Master(IncompFrags)]
  /\ data["all_incompressibles.json"] = [k |-> "json", m |-> Master(IncompFrags)]

Embedded ==
  \A j \in 1..NJobs :
    data[EmbedJobs[j].outfile] = header(j, hex_string(data[EmbedJobs[j].infile]))

\* the step is a run of the script: every other action clears the report or
\* advances the clock
IsRun == report'.result # "none" /\ now' = now

\* the hash store a run starting now loads
Stored == IF hashfile.k = "hashes" THEN hashfile.map ELSE NoHashes

\* C1: after a complete run (no run before it was interrupted, nothing was
\* lost) every output equals what a clean run over the present inputs
\* produces: no run reports success and leaves a stale output.
C1_NoStaleOutputAfterCompleteRun ==
  report.result = "complete" => Aggregated /\ Embedded

\* C2: a complete run that starts right after a complete run, nothing having
\* changed in between, writes no file at all and flushes no hash store.
C2_SecondRunWritesNothing ==
  (report.result = "complete" /\ report.since = "none") => report.writes = {}

\* C3, as the specification states it: a run writes a header only if the
\* symbol has no stored digest or the stored digest differs from the digest
\* of the payload.
C3_WrittenOnlyOnDigestMismatch ==
  [][IsRun =>
       \A j \in 1..NJobs :
         LET e == EmbedJobs[j]
         IN e.outfile \in report'.writes =>
              \/ e.variable \notin DOMAIN Stored
              \/ Stored[e.variable] # get_hash(hex_string(data'[e.infile]))]_vars

\* C3, amended: a run writes a header only if the header file does not exist,
\* or the symbol has no stored digest, or the stored digest differs from the
\* digest of the payload; a header it does not write keeps its content and
\* its modification time (also when the file times asked for a rebuild).
C3_WrittenOnlyOnMissingFileOrDigestMismatch ==
  [][IsRun =>
       \A j \in 1..NJobs :
         LET e == EmbedJobs[j]
         IN /\ e.outfile \in report'.writes =>
                 \/ data[e.outfile] = Absent
                 \/ e.variable \notin DOMAIN Stored
                 \/ Stored[e.variable] # get_hash(hex_string(data'[e.infile]))
            /\ e.outfile \notin report'.writes =>
                 /\ data'[e.outfile] = data[e.outfile]
                 /\ mtime'[e.outfile] = mtime[e.outfile]]_vars

\* C3, the case: a complete run has met a header older than its input, whose
\* stored digest equals the digest of the input, and has not written it.
C3_SkippedOnEqualDigest ==
  /\ report.result = "complete"
  /\ \E j \in 1..NJobs :
       LET e == EmbedJobs[j]
       IN /\ data[e.outfile] # Absent
          /\ data[e.infile] # Absent
          /\ mtime[e.infile] > mtime[e.outfile]
          /\ e.outfile \notin report.writes
          /\ hashfile.k = "hashes"
          /\ e.variable \in DOMAIN hashfile.map
          /\ hashfile.map[e.variable] = get_hash(hex_string(data[e.infile]))

\* C4: the sources being fixed, after runs of which one was killed between two
\* steps, the next complete run leaves what a clean run leaves.
C4_CompleteRunAfterKilledRunsConverges ==
  (report.result = "complete" /\ report.since = "killed") => Aggregated /\ Embedded

\* C5: once the fluids job was found stale, every run that evaluates it finds
\* it stale until a run has rebuilt it and rewritten its manifest.
C5_StaleUntilManifestRewritten ==
  [][(IsRun /\ pending /\ report'.fl # NoDecision) => report'.fl.needs]_vars

\* C6: a run that ends on an error flushes no hash store, and a file a failed
\* write left partial is regenerated by the next run: no complete run leaves
\* a partial file behind.
C6_FailedRunLeavesNothingAccepted ==
  /\ report.result = "aborted" => "hashes.json" \notin report.writes
  /\ report.result = "complete" => \A f \in Outputs : data[f] # Partial

\* C7: the first run after one fragment was added to the sources of a
\* successfully built job finds the job stale; so does the first run after
\* one fragment was removed, the fragments that remain (there are some) being
\* older than the destination.
C7_AddedOrRemovedFragmentIsStale ==
  /\ (report.result # "none" /\ report.since = "add") => report.fl.needs
  /\ (/\ report.result # "none" /\ report.since = "remove"
      /\ Glob(FluidFrags) # {}
      /\ \A n \in Glob(FluidFrags) : frag[n].t < mtime["all_fluids.json.z"])
       => report.fl.needs

\* C8: a job whose evaluation returned fresh has none of its outputs written
\* by that run.
C8_FreshJobWritesNothing ==
  report.result # "none" =>
    /\ ~report.fl.needs =>
         report.writes \cap {"all_fluids.json.z", "all_fluids_verbose.json",
                             "all_fluids.json", ".fluiddepcache"} = {}
    /\ (report.inc # NoDecision /\ ~report.inc.needs) =>
         report.writes \cap {"all_incompressibles_verbose.json",
                             "all_incompressibles.json", ".incompdepcache"} = {}

\* the decision C9 describes, for sources S, a destination and a manifest, on
\* the files as they are now
Decision(S, destination, cachefile) ==
  IF data[destination] = Absent
    THEN [needs |-> TRUE, reason |-> "destination does not exist"]
  ELSE IF data[cachefile] = Absent
    THEN [needs |-> TRUE, reason |-> "cache file does not exist"]
  ELSE IF \E n \in Glob(S) : frag[n].t >= mtime[destination]
    THEN [needs |-> TRUE, reason |-> "source file is newer than destination"]
  ELSE IF data[cachefile].sorted_sources
            # sorted(CHOOSE o \in Orders(Glob(S)) : TRUE)
    THEN [needs |-> TRUE, reason |-> "source list has changed"]
  ELSE [needs |-> FALSE, reason |-> ""]

\* C9: the evaluation of a job is the first of: destination missing (stale),
\* manifest missing (stale), a source not older than the destination (stale),
\* recorded source set different from the current one (stale), else fresh.
C9_DecisionProcedure ==
  [][(IsRun /\ report'.fl # NoDecision) =>
       /\ report'.fl = Decision(FluidFrags, "all_fluids.json.z", ".fluiddepcache")
       /\ (report'.inc # NoDecision =>
             report'.inc = Decision(IncompFrags, "all_incompressibles.json", ".incompdepcache"))]_vars

\* C10: the hash store having been lost, the next run succeeds, rewrites the
\* header of every embed job and records a digest for every symbol.
C10_LostStoreRebuildsEveryHeader ==
  (report.result # "none" /\ report.since = "corrupt") =>
    /\ report.result = "complete"
    /\ \A j \in 1..NJobs :
         /\ EmbedJobs[j].outfile \in report.writes
         /\ hashfile.k = "hashes" /\ EmbedJobs[j].variable \in DOMAIN hashfile.map

\* C11: whatever dev/hashes.json holds (nothing, a mapping, content that cannot
\* be parsed), loading gives a usable store and the run is not aborted because
\* of it: the first run after the store was replaced by invalid content
\* completes.
C11_LoadFailsSoft ==
  (report.result # "none" /\ report.since \in {"corrupt", "unparsable"}) =>
    report.result = "complete"

\* C12: a manifest that exists but cannot be read does not abort the run: the
\* first run after a manifest was replaced by unreadable content completes
\* and leaves a readable manifest.
C12_CorruptManifestIsNotFatal ==
  (report.result # "none" /\ report.since = "manifest") =>
    /\ report.result = "complete"
    /\ \A f \in CacheFiles : data[f] # Corrupt

\* the files of the fluids job, and the embed jobs that read one of them
FluidsOutputs == {"all_fluids.json.z", "all_fluids_verbose.json", "all_fluids.json"}

FluidsEmbeds == {j \in 1..NJobs : EmbedJobs[j].infile \in FluidsOutputs}

\* C13: in the first run after a complete run and the touch of one fragment
\* (new mtime, same content), the aggregated files that depend on the
\* fragment are written again with the content they had, no header that embeds
\* one of them is written, and the stored digests of those headers stay.
C13_TouchReaggregatesWithoutReembedding ==
  [][(IsRun /\ envLog = "touch") =>
       /\ report'.result = "complete"
       /\ \A f \in FluidsOutputs : f \in report'.writes /\ data'[f] = data[f]
       /\ \A j \in FluidsEmbeds :
            /\ EmbedJobs[j].outfile \notin report'.writes
            /\ hashfile'.map[EmbedJobs[j].variable] = hashfile.map[EmbedJobs[j].variable]]_vars

\* the files of the incompressibles job, and the malformed fragments of a job
IncompOutputs == {"all_incompressibles_verbose.json", "all_incompressibles.json"}

BadFragments(S) == {n \in Glob(S) : frag[n].c = Malformed}

\* C14: a run over a directory with a malformed fragment aborts with an error
\* that names a malformed fragment of the first such job; it writes none of
\* that job's files, nor its manifest, nor anything a later job writes, and
\* it does not flush the hash store.
C14_MalformedFragmentIsFatal ==
  report.result # "none" =>
    /\ BadFragments(FluidFrags) # {} =>
         /\ report.result = "aborted"
         /\ report.error \in BadFragments(FluidFrags)
         /\ report.writes \cap (FluidsOutputs \cup IncompOutputs \cup CacheFiles
                                 \cup Headers \cup {"hashes.json"}) = {}
    /\ (BadFragments(FluidFrags) = {} /\ BadFragments(IncompFrags) # {}) =>
         /\ report.result = "aborted"
         /\ report.error \in BadFragments(IncompFrags)
         /\ report.writes \cap (IncompOutputs \cup {".incompdepcache"}
                                 \cup Headers \cup {"hashes.json"}) = {}

\* C14, the case: a run has aborted on a malformed fragment and named it.
C14_AbortedOnMalformedFragment ==
  /\ report.result = "aborted"
  /\ report.error \in BadFragments(FluidFrags) \cup BadFragments(IncompFrags)

\* the phase of a run an event of its log belongs to: 1 version, 2 revision,
\* 3 aggregation, 4 compressed-blob embeds, 5 plain-JSON embeds, 6 flush
Phase(ev) ==
  IF ev.f = "hashes.json" THEN 6
  ELSE IF ev.f \in {"cpversion.h", ".version"} THEN 1
  ELSE IF ev.f = "gitrevision.h" THEN 2
  ELSE IF ev.op = "write" /\ ev.f \in AggFiles \cup CacheFiles THEN 3
  ELSE IF \E i \in 1..Len(zvalues) :
            \/ ev.op = "read" /\ ev.f = zvalues[i].infile
            \/ ev.op = "write" /\ ev.f = zvalues[i].outfile THEN 4
  ELSE 5

Flushes(log) == {i \in 1..Len(log) : log[i].f = "hashes.json"}

\* C15: what a run does happens in the order version, revision, aggregation,
\* compressed-blob embeds, plain-JSON embeds, flush (so every aggregated file
\* is written before an embed job reads one); the hash store is written at
\* most once, as the last thing the run does, and never by a run that an
\* exception ended.
C15_RunOrderAndSingleFlush ==
  report.result # "none" =>
    /\ \A i, j \in 1..Len(report.log) :
         i < j => Phase(report.log[i]) <= Phase(report.log[j])
    /\ Cardinality(Flushes(report.log)) <= 1
    /\ Flushes(report.log) \subseteq {Len(report.log)}
    /\ report.result = "aborted" => Flushes(report.log) = {}

\* C15, the case: a complete run has aggregated, then read an aggregated file
\* and written a header in each embed loop, and flushed the store
C15_AggregatedEmbeddedAndFlushed ==
  /\ report.result = "complete"
  /\ {Phase(report.log[i]) : i \in 1..Len(report.log)} = 1..6
  /\ \E i \in 1..Len(report.log) : report.log[i].op = "read" /\ report.log[i].f \in AggFiles

RECURSIVE Flatten(_)
Flatten(ss) == IF ss = <<>> THEN <<>> ELSE Head(ss) \o Flatten(Tail(ss))

\* the byte a literal denotes
ParseLiteral(l) == 16 * (CHOOSE n \in 0..15 : HexDigits[n + 1] = l[3])
                   + (CHOOSE n \in 0..15 : HexDigits[n + 1] = l[4])

\* C16: in either loop the encoding of an input of n bytes is n + 1 literals
\* 0x followed by two lowercase hex digits, the last one 0x00, sixteen to a
\* line but for a shorter last line; parsing the literals and dropping the
\* last gives back the bytes of the input.
C16_EncodingRoundTrip ==
  enc.loop # "-" =>
    /\ ~enc.raised
    /\ LET lits == Flatten(enc.chunks)
       IN /\ Len(lits) = Len(enc.json_) + 1
          /\ \A i \in 1..Len(lits) :
               /\ Len(lits[i]) = 4 /\ lits[i][1] = "0" /\ lits[i][2] = "x"
               /\ lits[i][3] \in Range(HexDigits) /\ lits[i][4] \in Range(HexDigits)
          /\ lits[Len(lits)] = <<"0", "x", "0", "0">>
          /\ \A k \in 1..Len(enc.chunks) :
               /\ Len(enc.chunks[k]) \in 1..16
               /\ k < Len(enc.chunks) => Len(enc.chunks[k]) = 16
          /\ [i \in 1..Len(enc.json_) |-> ParseLiteral(lits[i])] = enc.json_

\* C17: in every run, when an embed job's pre-check is evaluated, it reports
\* stale if the destination is missing, and it reports stale if the
\* destination exists and the input's mtime is greater than or equal to the
\* destination's.
C17_EmbedPreCheckTreatsEqualTimesAsStale ==
  \A fo \in Orders(Glob(FluidFrags)), io \in Orders(Glob(IncompFrags)) :
    LET t == Trace(NSteps - 1, fo, io)
    IN \A j \in 1..NJobs :
         LET s == t[FirstEmbed + j - 1]
             e == EmbedJobs[j]
         IN ~s.raised =>
              /\ ~Exists(s, e.outfile) =>
                   embed_needs_build(s, e.infile, e.outfile) = "build"
              /\ (Exists(s, e.outfile) /\ Exists(s, e.infile)
                    /\ s.mtime[e.infile] >= s.mtime[e.outfile]) =>
                   embed_needs_build(s, e.infile, e.outfile) = "build"

\* the fragments the glob of a cache file's job matches
JobFrags(cachefile) == IF cachefile = ".fluiddepcache" THEN FluidFrags ELSE IncompFrags

\* C18: a run that has rewritten an aggregation job's manifest leaves in it
\* the sorted list of all the fragments the job's glob matches.
C18_ManifestHoldsSortedSources ==
  \A f \in CacheFiles :
    (report.result # "none" /\ f \in report.writes) =>
      \E all \in Orders(Glob(JobFrags(f))) :
        data[f] = [k |-> "pickle", sorted_sources |-> sorted(all)]

\* C19: whatever runs, complete or killed, have happened, an entry of the
\* persisted hash store for an embed job whose header exists is the digest of
\* the hex payload the header holds.
C19_StoreMatchesHeaders ==
  hashfile \notin {Absent, Corrupt, Undecodable, NotAMapping} =>
    \A j \in 1..NJobs :
      LET e == EmbedJobs[j]
      IN (e.variable \in DOMAIN hashfile.map /\ data[e.outfile] # Absent) =>
           /\ data[e.outfile] # Partial
           /\ hashfile.map[e.variable] = get_hash(data[e.outfile].hexdata)

\* C20: when one output file (an aggregated file, a header, cpversion.h or
\* gitrevision.h) has been deleted since the last complete run and nothing
\* else has changed, the next run completes and every output file exists.
C20_DeletedOutputIsRecreated ==
  (report.result # "none" /\ report.since = "delete") =>
    /\ report.result = "complete"
    /\ \A f \in Outputs : data[f] # Absent

====
